---------------------------- MODULE Spec2Model ----------------------------
(***************************************************************************)
(* Taipei-Torrent (src/main.go): the session loop of doTorrent, the peer   *)
(* protocol of DoMessage, the block scheduler (RequestBlock, RecordBlock,  *)
(* ActivePiece) and the reader / writer tasks of every peer, as one state  *)
(* machine.                                                                *)
(*                                                                         *)
(* One action is one event of the select loop of doTorrent.  A peerReader  *)
(* shows by what it publishes on the message channel (the handshake, the   *)
(* messages, the final nil); a peerWriter shows by whether it still        *)
(* receives from writeChan when a handler sends.  A handler is a function  *)
(* from the session state to the session state; the state is threaded      *)
(* through the calls of the handler as a record r, and r.halt records that *)
(* the session task stopped inside the handler: "blocked" in a channel     *)
(* send nobody will ever receive, "panic" on an index or slice out of      *)
(* range.                                                                  *)
(***************************************************************************)
EXTENDS Integers, Sequences, FiniteSets, TLC

\* ------------------------------------------------------------- constants
STANDARD_BLOCK_LENGTH == 16384

MAX_OUR_REQUESTS == 2

\* seconds after which doCheckRequests times a request out (now - v > 30)
REQUEST_TIMEOUT == 30

\* seconds of silence after which the keep-alive tick closes a peer
IDLE_TIMEOUT == 180

\* seconds since the last write after which keepAlive sends an empty message
KEEPALIVE_AFTER == 120

\* length of the synthetic header message the reader publishes (header[20:])
HEADER_LEN == 48

\* ---------------------------------------------------------------- bounds
\* time.Seconds() when the session starts, and the step of AdvanceTime
StartTime == 1000

TimeStep == 100

\* AdvanceTime fires at most MaxAdvance times
MaxAdvance == 2

\* an unchoke is handled while every block counter is below MaxCount, a piece
\* while none is above it (both handlers make duplicate requests in endgame)
MaxCount == 2

\* piece messages are handled while Downloaded is below MaxBlocks blocks
MaxBlocks == 3

\* request messages are handled while Uploaded is below MaxUploads blocks
MaxUploads == 1

\* a behaviour has at most MaxEvents steps: the events the session loop
\* handles and the advances of the clock
MaxEvents == 6

\* the counter vectors of SpecChoose have at most MaxVector blocks
MaxVector == 3

\* a behaviour of SpecTracker has at most MaxAnnounces announces
MaxAnnounces == 4

\* a behaviour of SpecSwarm, which starts with the peers connected, has at most
\* SwarmEvents steps
SwarmEvents == 4

\* the peer objects (peerState values) a behaviour may create, in this order
Peers == <<"p1", "p2">>

\* the remote addresses connections come from
Addrs == {1, 2}

\* the torrents: piece length L (m.Info.PieceLength) and total size T
Torrents ==
  { [L |-> 2 * STANDARD_BLOCK_LENGTH, T |-> 2 * STANDARD_BLOCK_LENGTH + 100],
    [L |-> 2 * STANDARD_BLOCK_LENGTH, T |-> 4 * STANDARD_BLOCK_LENGTH] }

\* the torrents of SpecSwarm: also one whose pieces are shorter than a block
SwarmTorrents ==
  Torrents \union
    { [L |-> STANDARD_BLOCK_LENGTH \div 2, T |-> STANDARD_BLOCK_LENGTH \div 2 + 100] }

PeerSet == {Peers[i] : i \in 1..Len(Peers)}

\* the piece indices of the largest torrent, and the first index no torrent has
AllPieces == UNION {0..((m.T + m.L - 1) \div m.L) - 1 : m \in Torrents}

NoPiece == Cardinality(AllPieces)

\* the offset of the second block of a piece, and an offset in no piece
MaxLength == CHOOSE l \in {m.L : m \in Torrents} : \A m \in Torrents : m.L <= l

\* --------------------------------------------------------------- helpers
Min(S) == CHOOSE x \in S : \A y \in S : x <= y

Remove(f, k) == [j \in (DOMAIN f) \ {k} |-> f[j]]

Put(f, k, v) == [j \in (DOMAIN f) \union {k} |-> IF j = k THEN v ELSE f[j]]

Perms(S) ==
  {q \in [1..Cardinality(S) -> S] : \A i, j \in 1..Cardinality(S) : i # j => q[i] # q[j]}

\* An enumerated copy of a set given by a predicate.
Listed(S) == {x : x \in S}

\* requestIndex := (uint64(piece)<<32)|uint64(begin).  piece and begin are
\* below 2^32, so the key is the pair; piece = k>>32 and begin = int(k).
RequestIndex(piece, begin) == <<piece, begin>>

KeyPiece(k) == k[1]

KeyBegin(k) == k[2]

\* ----------------------------------------------------------- ActivePiece
\* downloaderCount is a function from the block indices 0..n-1 to the counters.
NumBlocks(dc) == Cardinality(DOMAIN dc)

\* The scan of chooseBlockToDownloadNormal from the last block down.
RECURSIVE NormalScanDown(_, _)
NormalScanDown(dc, i) ==
  IF i >= NumBlocks(dc) THEN -1
  ELSE IF NormalScanDown(dc, i + 1) # -1 THEN NormalScanDown(dc, i + 1)
  ELSE IF dc[i] = 0 THEN i
  ELSE -1

\* for i, v := range (a.downloaderCount) of chooseBlockToDownloadNormal: the
\* index it returns at
RECURSIVE NormalScan(_, _)
NormalScan(dc, i) ==
  IF i >= NumBlocks(dc) THEN -1
  ELSE IF dc[i] = 0 THEN i
  ELSE NormalScan(dc, i + 1)

\* c.index is what the method returns, c.dc the counters it leaves.
chooseBlockToDownloadNormal(dc) ==
  LET index == NormalScan(dc, 0)
  IN  IF index > -1 THEN [index |-> index, dc |-> [dc EXCEPT ![index] = @ + 1]]
      ELSE [index |-> -1, dc |-> dc]

\* The scan of chooseBlockToDownloadEndgame without its test v >= 0.
RECURSIVE EndgameScanAny(_, _, _, _)
EndgameScanAny(dc, i, index, minCount) ==
  IF i >= NumBlocks(dc) THEN index
  ELSE IF minCount = -1 \/ minCount > dc[i]
       THEN EndgameScanAny(dc, i + 1, i, dc[i])
       ELSE EndgameScanAny(dc, i + 1, index, minCount)

\* for i, v := range (a.downloaderCount) of chooseBlockToDownloadEndgame
RECURSIVE EndgameScan(_, _, _, _)
EndgameScan(dc, i, index, minCount) ==
  IF i >= NumBlocks(dc) THEN index
  ELSE IF dc[i] >= 0 /\ (minCount = -1 \/ minCount > dc[i])
       THEN EndgameScan(dc, i + 1, i, dc[i])
       ELSE EndgameScan(dc, i + 1, index, minCount)

chooseBlockToDownloadEndgame(dc) ==
  LET index == EndgameScan(dc, 0, -1, -1)
  IN  IF index > -1 THEN [index |-> index, dc |-> [dc EXCEPT ![index] = @ + 1]]
      ELSE [index |-> -1, dc |-> dc]

chooseBlockToDownload(dc, endgame) ==
  IF endgame THEN chooseBlockToDownloadEndgame(dc) ELSE chooseBlockToDownloadNormal(dc)

recordBlock(dc, index) == [dc EXCEPT ![index] = -1]

isComplete(dc) == \A i \in DOMAIN dc : dc[i] = -1

NewActivePiece(pieceLength) ==
  [downloaderCount |->
     [i \in 0..((pieceLength + STANDARD_BLOCK_LENGTH - 1) \div STANDARD_BLOCK_LENGTH) - 1 |-> 0],
   pieceLength |-> pieceLength]


\* ----------------------------------------------------------------- state
VARIABLES
  pieceLength,      \* t.m.Info.PieceLength
  totalSize,        \* t.totalSize
  lastPieceLength,  \* t.lastPieceLength
  totalPieces,      \* t.totalPieces
  pieceSet,         \* t.pieceSet: the set of the pieces we have
  goodPieces,       \* t.goodPieces
  activePieces,     \* t.activePieces: piece -> [downloaderCount, pieceLength]
  peers,            \* t.peers: address -> peerState
  left,             \* t.si.Left
  downloaded,       \* t.si.Downloaded
  uploaded,         \* t.si.Uploaded
  peer,             \* the fields of every peerState
  closeCount,       \* how many times p.Close() was executed
  created,          \* number of peerStates created by AddPeer
  reader,           \* peerReader, by what it can still send on msgChan:
                    \* "header", "body" (messages), "closing" (only the
                    \* sentinel), "done" (it has returned)
  halt,             \* the session task: "run", "blocked", "panic"
  now,              \* time.Seconds()
  events,           \* number of steps taken: events handled and clock advances
  rejected,         \* history: peerStates whose first message had a wrong
                    \* info-hash
  completed,        \* history: the pieces RecordBlock has completed
  sent,             \* history: the messages the last step passed to
                    \* sendMessage, in order
  tracker           \* the tracker side of the session: t.ti, the announces
                    \* issued, those still in flight, the retracker interval
                    \* and the addresses being dialled

vars ==
  <<pieceLength, totalSize, lastPieceLength, totalPieces, pieceSet, goodPieces,
    activePieces, peers, left, downloaded, uploaded, peer, closeCount,
    created, reader, halt, now, events, rejected, completed, sent, tracker>>

\* all the state but the tracker side
sessionVars ==
  <<pieceLength, totalSize, lastPieceLength, totalPieces, pieceSet, goodPieces,
    activePieces, peers, left, downloaded, uploaded, peer, closeCount,
    created, reader, halt, now, events, rejected, completed, sent>>

Pieces == 0..(totalPieces - 1)

\* NewPeerState; lastReadTime and lastWriteTime are left 0.  have is nil until a
\* bitfield or another message arrives; id is empty until the handshake.
NewPeerState ==
  [address |-> 0, hasId |-> FALSE, haveNil |-> TRUE, have |-> {},
   am_choking |-> TRUE, am_interested |-> FALSE,
   peer_choking |-> TRUE, peer_interested |-> FALSE,
   our_requests |-> <<>>, lastReadTime |-> 0, lastWriteTime |-> 0]

\* The session state a handler works on.  dead: the peerStates whose peerWriter
\* has returned (a write on the connection failed) when the handler runs.
Cur ==
  [pieceSet |-> pieceSet, goodPieces |-> goodPieces, activePieces |-> activePieces,
   peers |-> peers, left |-> left, downloaded |-> downloaded, uploaded |-> uploaded,
   peer |-> peer, closeCount |-> closeCount, completed |-> completed,
   halt |-> halt, dead |-> {}, err |-> "nil", ret |-> FALSE, sent |-> <<>>]

Commit(r) ==
  /\ pieceSet' = r.pieceSet
  /\ goodPieces' = r.goodPieces
  /\ activePieces' = r.activePieces
  /\ peers' = r.peers
  /\ left' = r.left
  /\ downloaded' = r.downloaded
  /\ uploaded' = r.uploaded
  /\ peer' = r.peer
  /\ closeCount' = r.closeCount
  /\ completed' = r.completed
  /\ halt' = r.halt
  /\ sent' = r.sent

Running(r) == r.halt = "run"

\* ------------------------------------------------------------- peerState
\* A message of the session, by what a peer reads of it: the opcode (-1 for the
\* empty keep-alive message) and the three integers of a have, request, piece
\* or cancel.  sendMessage fills in the peerState it is written to and whether
\* its writeChan was open.
Out(op, index, begin, length) ==
  [to |-> "", open |-> TRUE, op |-> op, index |-> index, begin |-> begin, length |-> length]

\* p.writeChan <- b; p.lastWriteTime = time.Seconds().  writeChan is unbuffered:
\* the send completes when peerWriter receives.  A send on a closed channel is
\* dropped by the runtime this code was written for; a send on an open channel
\* whose peerWriter has returned blocks the session task for ever.
sendMessage(r, p, b) ==
  IF ~Running(r) THEN r
  ELSE IF r.closeCount[p] = 0 /\ p \in r.dead THEN [r EXCEPT !.halt = "blocked"]
  ELSE [r EXCEPT !.peer[p].lastWriteTime = now,
                 !.sent = Append(@, [b EXCEPT !.to = p, !.open = (r.closeCount[p] = 0)])]

SetChoke(r, p, choke) ==
  IF ~Running(r) \/ choke = r.peer[p].am_choking THEN r
  ELSE sendMessage([r EXCEPT !.peer[p].am_choking = choke], p,
                   Out(IF choke THEN 0 ELSE 1, 0, 0, 0))

\* SetInterested without its test of a transition.
SetInterestedAlways(r, p, interested) ==
  IF ~Running(r) THEN r
  ELSE sendMessage([r EXCEPT !.peer[p].am_interested = interested], p,
                   Out(IF interested THEN 2 ELSE 3, 0, 0, 0))

SetInterested(r, p, interested) ==
  IF ~Running(r) \/ interested = r.peer[p].am_interested THEN r
  ELSE sendMessage([r EXCEPT !.peer[p].am_interested = interested], p,
                   Out(IF interested THEN 2 ELSE 3, 0, 0, 0))

keepAlive(r, p) ==
  IF ~Running(r) THEN r
  ELSE IF now - r.peer[p].lastWriteTime >= KEEPALIVE_AFTER
       THEN sendMessage(r, p, Out(-1, 0, 0, 0))
  ELSE r

\* p.conn.Close(); close(p.writeChan)
Close(r, p) == [r EXCEPT !.closeCount[p] = @ + 1]

\* -------------------------------------------------------- request tables
\* removeRequest without its test of the counter.
removeRequestAny(ap, piece, block) ==
  IF piece \in DOMAIN ap
  THEN [ap EXCEPT ![piece].downloaderCount[block] = @ - 1]
  ELSE ap

removeRequest(ap, piece, block) ==
  IF piece \in DOMAIN ap /\ ap[piece].downloaderCount[block] > 0
  THEN [ap EXCEPT ![piece].downloaderCount[block] = @ - 1]
  ELSE ap

RECURSIVE RemoveAll(_, _)
RemoveAll(ap, keys) ==
  IF keys = {} THEN ap
  ELSE LET k == CHOOSE x \in keys : TRUE
       IN  RemoveAll(removeRequest(ap, KeyPiece(k), KeyBegin(k) \div STANDARD_BLOCK_LENGTH),
                     keys \ {k})

removeRequests(r, p) ==
  IF ~Running(r) THEN r
  ELSE [r EXCEPT !.activePieces = RemoveAll(@, DOMAIN r.peer[p].our_requests),
                 !.peer[p].our_requests = <<>>]

doChoke(r, p) ==
  IF ~Running(r) THEN r
  ELSE removeRequests([r EXCEPT !.peer[p].peer_choking = TRUE], p)

doCheckRequests(r, p) ==
  IF ~Running(r) THEN r
  ELSE [r EXCEPT !.activePieces =
          RemoveAll(@, {k \in DOMAIN r.peer[p].our_requests :
                          now - r.peer[p].our_requests[k] > REQUEST_TIMEOUT})]

ClosePeer(r, p) ==
  IF ~Running(r) THEN r
  ELSE LET r1 == Close(removeRequests(r, p), p)
       IN  [r1 EXCEPT !.peers = Remove(@, r.peer[p].address)]

\* length of requestBlockImp: clamped to what the last piece has left.  It is
\* positive: block is a block of the ActivePiece, so begin is below its length.
RequestLength(piece, begin) ==
  IF piece = totalPieces - 1 /\ lastPieceLength - begin < STANDARD_BLOCK_LENGTH
  THEN lastPieceLength - begin
  ELSE STANDARD_BLOCK_LENGTH

\* Used to request or cancel a block
requestBlockImp(r, p, piece, block, request) ==
  IF ~Running(r) THEN r
  ELSE LET requestIndex == RequestIndex(piece, block * STANDARD_BLOCK_LENGTH)
       IN  sendMessage(
             [r EXCEPT !.peer[p].our_requests =
                IF request THEN Put(@, requestIndex, now) ELSE Remove(@, requestIndex)],
             p,
             Out(IF request THEN 6 ELSE 8, piece, block * STANDARD_BLOCK_LENGTH,
                 RequestLength(piece, block * STANDARD_BLOCK_LENGTH)))

\* ------------------------------------------------------------- scheduler
\* if block >= 0 { t.requestBlockImp(p, piece, block, true) } else { return os.EOF }
RequestChosen(r, p, piece, c) ==
  IF c.index >= 0
  THEN [requestBlockImp([r EXCEPT !.activePieces[piece].downloaderCount = c.dc],
                        p, piece, c.index, TRUE)
          EXCEPT !.err = "nil"]
  ELSE [r EXCEPT !.err = "EOF"]

RequestBlock2(r, p, piece, endGame) ==
  IF ~Running(r) THEN r
  ELSE RequestChosen(r, p, piece,
                     chooseBlockToDownload(r.activePieces[piece].downloaderCount, endGame))

\* for k, _ := range (t.activePieces): the pieces in the map's iteration order
\* `order`.  r.ret tells that the loop returned from RequestBlock; r.err is the
\* err of the last RequestBlock2 of the loop, if there was one.
RECURSIVE TryActive(_, _, _, _, _)
\* if err != os.EOF { return }
TryNext(r2, p, order, i, endGame) ==
  IF r2.err # "EOF" THEN [r2 EXCEPT !.ret = TRUE]
  ELSE TryActive(r2, p, order, i + 1, endGame)

TryActive(r, p, order, i, endGame) ==
  IF ~Running(r) \/ i > Len(order) THEN r
  ELSE IF order[i] \in DOMAIN r.activePieces /\ order[i] \in r.peer[p].have
       THEN TryNext(RequestBlock2(r, p, order[i], endGame), p, order, i, endGame)
       ELSE TryActive(r, p, order, i + 1, endGame)

\* checkRange without its test of t.pieceSet.
checkRangeHeld(r, p, start, end) ==
  LET c == {i \in start..(end - 1) :
              i \in r.peer[p].have /\ i \notin DOMAIN r.activePieces}
  IN  IF c = {} THEN -1 ELSE Min(c)

checkRange(r, p, start, end) ==
  LET c == {i \in start..(end - 1) :
              i \notin r.pieceSet /\ i \in r.peer[p].have /\ i \notin DOMAIN r.activePieces}
  IN  IF c = {} THEN -1 ELSE Min(c)

\* start is rand.Intn(n)
ChoosePiece(r, p, start) ==
  IF checkRange(r, p, start, totalPieces) # -1 THEN checkRange(r, p, start, totalPieces)
  ELSE checkRange(r, p, 0, start)

\* RequestBlock after its second loop over t.activePieces: piece < 0
RequestBlockEnd(r2, p) ==
  IF r2.ret \/ ~Running(r2) THEN r2 ELSE SetInterested(r2, p, FALSE)

\* RequestBlock after ChoosePiece
RequestBlockPiece(r1, p, o, piece) ==
  IF piece < 0 THEN RequestBlockEnd(TryActive(r1, p, o.order, 1, TRUE), p)
  ELSE RequestBlock2(
         [r1 EXCEPT !.activePieces =
            Put(@, piece, NewActivePiece(IF piece = totalPieces - 1
                                         THEN lastPieceLength ELSE pieceLength))],
         p, piece, FALSE)

\* RequestBlock after its first loop over t.activePieces
RequestBlockChoose(r1, p, o) ==
  IF r1.ret \/ ~Running(r1) THEN r1
  ELSE RequestBlockPiece(r1, p, o, ChoosePiece(r1, p, o.start))

\* o.order is the iteration order of t.activePieces, o.start is rand.Intn(n).
RequestBlock(r, p, o) ==
  IF ~Running(r) THEN r
  ELSE RequestBlockChoose(
         TryActive([r EXCEPT !.err = "nil", !.ret = FALSE], p, o.order, 1, FALSE), p, o)

RECURSIVE RequestBlocks(_, _, _, _)
\* if err != nil { return }
RequestBlocksNext(r1, p, os, i) ==
  IF r1.err # "nil" THEN r1 ELSE RequestBlocks(r1, p, os, i + 1)

\* for i := 0; i < MAX_OUR_REQUESTS; i++ { err = t.RequestBlock(p); ... }
RequestBlocks(r, p, os, i) ==
  IF ~Running(r) \/ i > MAX_OUR_REQUESTS THEN r
  ELSE RequestBlocksNext(RequestBlock(r, p, os[i]), p, os, i)

\* The peerStates of t.peers in the map's iteration order `addrs`.
RangePeers(r, addrs) ==
  LET s == SelectSeq(addrs, LAMBDA a : a \in DOMAIN r.peers)
  IN  [i \in 1..Len(s) |-> r.peers[s[i]]]

RECURSIVE SendCancels(_, _, _, _, _, _)
SendCancels(r, p, ps, i, piece, block) ==
  IF ~Running(r) \/ i > Len(ps) THEN r
  ELSE IF ps[i] # p /\
          RequestIndex(piece, block * STANDARD_BLOCK_LENGTH) \in DOMAIN r.peer[ps[i]].our_requests
       THEN SendCancels(requestBlockImp(r, ps[i], piece, block, FALSE), p, ps, i + 1, piece, block)
       ELSE SendCancels(r, p, ps, i + 1, piece, block)

RECURSIVE SendHaves(_, _, _, _)
SendHaves(r, ps, i, piece) ==
  IF ~Running(r) \/ i > Len(ps) THEN r
  ELSE IF ~r.peer[ps[i]].haveNil /\ piece \notin r.peer[ps[i]].have
       THEN SendHaves(sendMessage(r, ps[i], Out(4, piece, 0, 0)), ps, i + 1, piece)
       ELSE SendHaves(r, ps, i + 1, piece)

\* RecordCounted with t.goodPieces++ for every block it records.
RecordCountedEach(r2, ps, piece, length) ==
  IF ~Running(r2) THEN r2
  ELSE IF isComplete(r2.activePieces[piece].downloaderCount)
       THEN SendHaves([r2 EXCEPT !.downloaded = @ + length,
                                 !.activePieces = Remove(@, piece),
                                 !.left = @ - r2.activePieces[piece].pieceLength,
                                 !.pieceSet = @ \union {piece},
                                 !.goodPieces = @ + 1,
                                 !.completed = @ \union {piece}],
                      ps, 1, piece)
       ELSE [r2 EXCEPT !.downloaded = @ + length, !.goodPieces = @ + 1]

\* RecordBlock from t.si.Downloaded += int64(length) on
RecordCounted(r2, ps, piece, length) ==
  IF ~Running(r2) THEN r2
  ELSE IF isComplete(r2.activePieces[piece].downloaderCount)
       THEN SendHaves([r2 EXCEPT !.downloaded = @ + length,
                                 !.activePieces = Remove(@, piece),
                                 !.left = @ - r2.activePieces[piece].pieceLength,
                                 !.pieceSet = @ \union {piece},
                                 !.goodPieces = @ + 1,
                                 !.completed = @ \union {piece}],
                      ps, 1, piece)
       ELSE [r2 EXCEPT !.downloaded = @ + length]

\* RecordBlock when the piece is active: v.recordBlock(int(block)) panics on a
\* block the piece does not have; ps is t.peers in its iteration order.
RecordActive(r0, p, piece, block, length, ps) ==
  IF block \notin DOMAIN r0.activePieces[piece].downloaderCount
  THEN [r0 EXCEPT !.halt = "panic"]
  ELSE RecordCounted(
         IF r0.activePieces[piece].downloaderCount[block] > 1
         THEN SendCancels(
                [r0 EXCEPT !.activePieces[piece].downloaderCount = recordBlock(@, block)],
                p, ps, 1, piece, block)
         ELSE [r0 EXCEPT !.activePieces[piece].downloaderCount = recordBlock(@, block)],
         ps, piece, length)

\* addrs is the iteration order of t.peers (the same map: the same order in both
\* loops, as nothing is inserted between them).
RecordBlock(r, p, piece, begin, length, addrs) ==
  IF ~Running(r) THEN r
  ELSE IF piece \notin DOMAIN r.activePieces
       THEN [r EXCEPT !.peer[p].our_requests = Remove(@, RequestIndex(piece, begin))]
       ELSE RecordActive(
              [r EXCEPT !.peer[p].our_requests = Remove(@, RequestIndex(piece, begin))],
              p, piece, begin \div STANDARD_BLOCK_LENGTH, length, RangePeers(r, addrs))

isInteresting(r, p) == \E i \in Pieces : i \notin r.pieceSet /\ i \in r.peer[p].have

checkInteresting(r, p) == SetInterested(r, p, isInteresting(r, p))

\* t.si.Uploaded += STANDARD_BLOCK_LENGTH, after p.sendMessage(buf)
CountUpload(r1) ==
  IF Running(r1) THEN [r1 EXCEPT !.uploaded = @ + STANDARD_BLOCK_LENGTH] ELSE r1

\* io: t.fileStore.ReadAt failed
sendRequest(r, p, index, begin, length, io) ==
  IF ~Running(r) THEN r
  ELSE IF r.peer[p].am_choking THEN r
  ELSE IF io THEN [r EXCEPT !.err = "error"]
  ELSE CountUpload(sendMessage(r, p, Out(7, index, begin, length)))

\* -------------------------------------------------------------- messages
\* A message of a peer, by what DoMessage reads of it: the opcode (-1 for the
\* empty keep-alive message), len(message), the three integers of a have,
\* request, piece or cancel, the bits of a bitfield, whether message[8:28] is
\* the session's info-hash, and whether the FileStore fails on it.
Msg(op, len, index, begin, length, bits, match, io) ==
  [op |-> op, len |-> len, index |-> index, begin |-> begin, length |-> length,
   bits |-> bits, match |-> match, io |-> io]

\* header[20:] of the handshake: 8 reserved bytes, info-hash, peer-id
Headers == {Msg(0, HEADER_LEN, 0, 0, 0, {}, match, FALSE) : match \in BOOLEAN}

\* The messages peers send: every opcode but interested (2) and not-interested
\* (3), which only set peer_interested, a flag nothing reads; and for every
\* check of DoMessage a message that fails it.
Messages ==
  {Msg(-1, 0, 0, 0, 0, {}, FALSE, FALSE)}
  \union {Msg(op, 1, 0, 0, 0, {}, FALSE, FALSE) : op \in {0, 1}}
  \union {Msg(0, 2, 0, 0, 0, {}, FALSE, FALSE)}
  \union {Msg(4, 5, n, 0, 0, {}, FALSE, FALSE) : n \in AllPieces \union {NoPiece}}
  \union {Msg(5, 1 + (NoPiece + 7) \div 8, 0, 0, 0, bits, FALSE, FALSE) :
            bits \in SUBSET AllPieces \union {{NoPiece}}}
  \union {Msg(6, 13, index, 0, STANDARD_BLOCK_LENGTH, {}, FALSE, FALSE) :
            index \in AllPieces \union {NoPiece}}
  \union {Msg(6, 13, 0, begin, STANDARD_BLOCK_LENGTH, {}, FALSE, FALSE) :
            begin \in {STANDARD_BLOCK_LENGTH, MaxLength}}
  \union {Msg(6, 13, 0, 0, STANDARD_BLOCK_LENGTH, {}, FALSE, TRUE),
          Msg(6, 13, 0, 0, 100, {}, FALSE, FALSE),
          Msg(6, 13, 0, STANDARD_BLOCK_LENGTH, MaxLength, {}, FALSE, FALSE)}
  \union {Msg(8, 13, index, 0, STANDARD_BLOCK_LENGTH, {}, FALSE, FALSE) :
            index \in {0, NoPiece}}
  \union {Msg(7, 9 + STANDARD_BLOCK_LENGTH, index, begin, STANDARD_BLOCK_LENGTH,
              {}, FALSE, FALSE) :
            index \in AllPieces \union {NoPiece}, begin \in {0, STANDARD_BLOCK_LENGTH}}
  \union {Msg(7, 9 + 100, index, 0, 100, {}, FALSE, FALSE) :
            index \in AllPieces}
  \union {Msg(7, 9 + STANDARD_BLOCK_LENGTH, 0, 0, STANDARD_BLOCK_LENGTH, {}, TRUE, FALSE),
          Msg(7, 9 + STANDARD_BLOCK_LENGTH, 0, 0, STANDARD_BLOCK_LENGTH, {}, FALSE, TRUE),
          Msg(7, 9 + STANDARD_BLOCK_LENGTH, 0, MaxLength, STANDARD_BLOCK_LENGTH,
              {}, FALSE, FALSE),
          Msg(7, 9 + MaxLength, 0, STANDARD_BLOCK_LENGTH, MaxLength, {}, FALSE, FALSE),
          Msg(7, 8, 0, 0, 0, {}, FALSE, FALSE)}
  \union {Msg(9, 3, 0, 0, 0, {}, FALSE, FALSE), Msg(10, 1, 0, 0, 0, {}, FALSE, FALSE)}

NilMessage == {Msg(-1, 0, 0, 0, 0, {}, FALSE, FALSE)}

\* What a handler draws from outside the state: the iteration order of
\* t.activePieces and rand.Intn(n) of each RequestBlock call, and the iteration
\* order of t.peers.
Draws == {[order |-> o, start |-> s] : o \in Perms(AllPieces), s \in AllPieces}

AddrOrders == Listed(Perms(Addrs))

Choices == {[rb |-> f, addrs |-> a] : f \in [1..MAX_OUR_REQUESTS -> Draws], a \in AddrOrders}

FirstDraw == CHOOSE d \in Draws : TRUE

FirstAddrs == CHOOSE q \in AddrOrders : TRUE

\* The draws a message's handler makes: unchoke calls RequestBlock up to
\* MAX_OUR_REQUESTS times, piece calls RecordBlock and RequestBlock once.
UnchokeChoices == Listed({c \in Choices : c.addrs = FirstAddrs})

PieceChoices == Listed({c \in Choices : \A i \in 2..MAX_OUR_REQUESTS : c.rb[i] = FirstDraw})

NoChoices == Listed(UnchokeChoices \intersect PieceChoices)

FirstChoice == CHOOSE c \in NoChoices : TRUE

ChoicesFor(kind, m) ==
  IF kind = "body" /\ m.op = 1 THEN UnchokeChoices
  ELSE IF kind = "body" /\ m.op = 7 THEN PieceChoices
  ELSE NoChoices

MessagesOf(kind) ==
  IF kind = "header" THEN Headers
  ELSE IF kind = "body" THEN Messages
  ELSE {}

\* NewBitsetFromBytes(n, data): nil (ok = FALSE) when len(data) is not
\* ceil(n/8) or a padding bit (an index >= n) is set.
NewBitsetFromBytes(n, dataLen, bits) ==
  IF dataLen = (n + 7) \div 8 /\ bits \subseteq 0..(n - 1)
  THEN [ok |-> TRUE, bits |-> bits]
  ELSE [ok |-> FALSE, bits |-> {}]

\* ------------------------------------------------------------- DoMessage
Error(r) == [r EXCEPT !.err = "error"]

\* RequestChecks without its test of t.pieceSet.
RequestChecksAny(r, p, m) ==
  \/ m.len # 13
  \/ m.index >= totalPieces
  \/ m.begin >= pieceLength
  \/ m.begin + m.length > pieceLength
  \/ m.length # STANDARD_BLOCK_LENGTH

\* The bound checks shared by request (6) and cancel (8).
RequestChecks(r, p, m) ==
  \/ m.len # 13
  \/ m.index >= totalPieces
  \/ m.index \notin r.pieceSet
  \/ m.begin >= pieceLength
  \/ m.begin + m.length > pieceLength
  \/ m.length # STANDARD_BLOCK_LENGTH

DoPiece(r, p, m, c) ==
  IF m.len < 9 THEN Error(r)
  ELSE IF m.index >= totalPieces THEN Error(r)
  ELSE IF m.index \in r.pieceSet THEN r
  ELSE IF m.begin >= pieceLength THEN Error(r)
  ELSE IF m.begin + (m.len - 9) > pieceLength THEN Error(r)
  ELSE IF m.len - 9 > 128 * 1024 THEN Error(r)
  ELSE IF m.io THEN Error(r)
  ELSE RequestBlock(RecordBlock(r, p, m.index, m.begin, m.len - 9, c.addrs), p, c.rb[1])

DoBitfield(r, p, m) ==
  IF ~r.peer[p].haveNil THEN Error(r)
  ELSE LET b == NewBitsetFromBytes(totalPieces, m.len - 1, m.bits)
       IN  IF ~b.ok THEN Error(r)
           ELSE checkInteresting([r EXCEPT !.peer[p].haveNil = FALSE, !.peer[p].have = b.bits], p)

DoHave(r, p, m) ==
  IF m.len # 5 THEN Error(r)
  ELSE IF m.index < totalPieces
  THEN LET r1 == [r EXCEPT !.peer[p].have = @ \union {m.index}]
       IN  IF ~r1.peer[p].am_interested /\ m.index \notin r1.pieceSet
           THEN SetInterested(r1, p, TRUE)
           ELSE r1
  ELSE Error(r)

\* kind: "header" and "body" for what the reader read, "nil" for its sentinel.
DoMessage(r, p, kind, m, c) ==
  IF ~r.peer[p].hasId
  THEN IF kind = "nil" THEN Error(r)
       ELSE IF m.len < 28 THEN [r EXCEPT !.halt = "panic"]
       ELSE IF ~m.match THEN Error(r)
       ELSE IF m.len < HEADER_LEN THEN [r EXCEPT !.halt = "panic"]
       ELSE [r EXCEPT !.peer[p].hasId = TRUE]
  ELSE IF kind = "nil" \/ m.len = 0 THEN r
  ELSE
    LET r0 == IF r.peer[p].haveNil /\ m.op # 5
              THEN [r EXCEPT !.peer[p].haveNil = FALSE, !.peer[p].have = {}]
              ELSE r
    IN  CASE m.op = 0 -> IF m.len # 1 THEN Error(r0) ELSE doChoke(r0, p)
          [] m.op = 1 -> IF m.len # 1 THEN Error(r0)
                         ELSE RequestBlocks([r0 EXCEPT !.peer[p].peer_choking = FALSE],
                                            p, c.rb, 1)
          [] m.op = 2 -> IF m.len # 1 THEN Error(r0)
                         ELSE [r0 EXCEPT !.peer[p].peer_interested = TRUE]
          [] m.op = 3 -> IF m.len # 1 THEN Error(r0)
                         ELSE [r0 EXCEPT !.peer[p].peer_interested = FALSE]
          [] m.op = 4 -> DoHave(r0, p, m)
          [] m.op = 5 -> DoBitfield(r0, p, m)
          [] m.op = 6 -> IF RequestChecks(r0, p, m) THEN Error(r0)
                         ELSE sendRequest(r0, p, m.index, m.begin, m.length, m.io)
          [] m.op = 7 -> DoPiece(r0, p, m, c)
          [] m.op = 8 -> IF RequestChecks(r0, p, m) THEN Error(r0) ELSE r0
          [] m.op = 9 -> r0
          [] OTHER -> Error(r0)

\* --------------------------------------------------------------- tracker
\* The tracker side before the first announce: t.ti is nil (the empty
\* sequence), retrackerChan ticks every 20 seconds.
NoTracker ==
  [ti |-> <<>>, announces |-> <<>>, pending |-> {}, interval |-> 20, dialing |-> {}]

\* fetchTrackerInfo: the announce carries the counters of t.si, and
\* event=started when t.ti is nil; the request runs in a goroutine of its own.
fetchTrackerInfo(tr, up, down, lft) ==
  [tr EXCEPT !.announces = Append(@, [started |-> (tr.ti = <<>>), uploaded |-> up,
                                      downloaded |-> down, left |-> lft]),
             !.pending = @ \union {Len(tr.announces) + 1}]

\* The responses of the tracker: interval and the addresses of the peer list.
TrackerResponses == {[interval |-> i, peers |-> A] : i \in {60, 1800, 100000}, A \in SUBSET Addrs}

\* --------------------------------------------------------------- actions
\* The caps of the model on the counters the code lets grow without bound.
WithinBounds(m) ==
  /\ m.op = 7 => downloaded < MaxBlocks * STANDARD_BLOCK_LENGTH
  /\ m.op = 6 => uploaded < MaxUploads * STANDARD_BLOCK_LENGTH
  /\ m.op \in {1, 7} =>
       \A k \in DOMAIN activePieces :
         \A b \in DOMAIN activePieces[k].downloaderCount :
           activePieces[k].downloaderCount[b] < (IF m.op = 1 THEN MaxCount ELSE MaxCount + 1)

\* The peerWriters that have returned when a handler runs.  The session task
\* stops at its first send to one of them, so one is enough to tell; and the
\* handler of a message sends to the sender only (requests, interested, a
\* piece), but for the cancels and haves that follow a piece.
DeadSets == {{}} \union {{p} : p \in PeerSet}

DeadFor(p, kind, m) ==
  IF kind = "body" /\ m.op \in {1, 4, 5, 6} THEN {{}, {p}}
  ELSE IF kind = "body" /\ m.op = 7 THEN DeadSets
  ELSE {{}}

\* The inputs of a handler are enumerated where they can show.  A returned
\* peerWriter shows on an open channel only; the iteration order of t.peers
\* shows when a send can block and two peers are registered; rand.Intn shows
\* when two pieces are neither had nor active; the iteration order of
\* t.activePieces shows when two pieces are active (in the first RequestBlock
\* of a handler) or can be (in the later ones).
DeadMatters(dead) == \A q \in dead : reader[q] # "none" /\ closeCount[q] = 0

AddrsMatter(addrs, dead) ==
  (dead = {} \/ Cardinality(DOMAIN peers) < 2) => addrs = FirstAddrs

OrderMatters(c, dead) ==
  /\ DeadMatters(dead)
  /\ AddrsMatter(c.addrs, dead)
  /\ Cardinality(Pieces \ (pieceSet \union DOMAIN activePieces)) < 2 =>
       \A i \in 1..MAX_OUR_REQUESTS : c.rb[i].start = FirstDraw.start
  /\ Cardinality(DOMAIN activePieces) < 2 => c.rb[1].order = FirstDraw.order
  /\ Cardinality(Pieces \ pieceSet) < 2 =>
       \A i \in 2..MAX_OUR_REQUESTS : c.rb[i].order = FirstDraw.order

\* NewTorrentSession: checkPieces finds any set of the pieces good.
Init ==
  /\ \E m \in Torrents :
       /\ pieceLength = m.L
       /\ totalSize = m.T
       /\ lastPieceLength = m.T % m.L
       /\ totalPieces = (m.T + m.L - 1) \div m.L
  /\ pieceSet \in SUBSET Pieces
  /\ goodPieces = Cardinality(pieceSet)
  /\ left = IF (totalPieces - 1) \notin pieceSet
            THEN (totalPieces - goodPieces) * pieceLength - pieceLength + lastPieceLength
            ELSE (totalPieces - goodPieces) * pieceLength
  /\ activePieces = <<>>
  /\ peers = <<>>
  /\ downloaded = 0
  /\ uploaded = 0
  /\ peer = [p \in PeerSet |-> NewPeerState]
  /\ closeCount = [p \in PeerSet |-> 0]
  /\ created = 0
  /\ reader = [p \in PeerSet |-> "none"]
  /\ halt = "run"
  /\ now = StartTime
  /\ rejected = {}
  /\ completed = {}
  /\ sent = <<>>
  /\ tracker = fetchTrackerInfo(NoTracker, 0, 0, left)
  /\ events = 0

\* case conn := <-conChan: ts.AddPeer(conn).  The addresses are named in the
\* order in which they first connect.  dead: peerWriter could not write the
\* handshake and has returned.
AddPeer ==
  /\ halt = "run"
  /\ events < MaxEvents
  /\ events' = events + 1
  /\ created < Len(Peers)
  /\ \E a \in Addrs, dead \in BOOLEAN :
       /\ \A b \in Addrs : b < a => \E q \in PeerSet : peer[q].address = b
       /\ LET p == Peers[created + 1]
              r0 == [Cur EXCEPT !.peer[p].address = a,
                                !.peers = Put(@, a, p),
                                !.dead = IF dead THEN {p} ELSE {}]
          IN  /\ Commit(SetChoke(r0, p, FALSE))
              /\ reader' = [reader EXCEPT ![p] = "header"]
  /\ created' = created + 1
  /\ UNCHANGED <<pieceLength, totalSize, lastPieceLength, totalPieces, now, rejected,
                 tracker>>

\* if err2 != nil { ts.ClosePeer(peer) }
CloseOnError(r1, p) ==
  IF Running(r1) /\ r1.err # "nil" THEN ClosePeer(r1, p) ELSE r1

\* for { select { ... } }: what the loop does with a peerMessage.
Dispatch(r, p, kind, m, c) == CloseOnError(DoMessage(r, p, kind, m, c), p)

\* case pm := <-ts.peerMessageChan, and what peerReader sent is the handshake
\* or a message.  Once the session has closed the connection, peerReader can
\* send at most the message it had read before, and then the sentinel.
HandleMessage(p) ==
  /\ halt = "run"
  /\ events < MaxEvents
  /\ events' = events + 1
  /\ reader[p] \in {"header", "body"}
  /\ \E m \in MessagesOf(reader[p]) :
       /\ reader[p] = "body" => WithinBounds(m)
       /\ \E c \in ChoicesFor(reader[p], m), dead \in DeadFor(p, reader[p], m) :
            /\ OrderMatters(c, dead)
            /\ Commit(Dispatch([Cur EXCEPT !.peer[p].lastReadTime = now, !.dead = dead],
                               p, reader[p], m, c))
       /\ rejected' = IF reader[p] = "header" /\ ~m.match THEN rejected \union {p}
                      ELSE rejected
  /\ reader' = [reader EXCEPT ![p] = IF closeCount[p] > 0 THEN "closing" ELSE "body"]
  /\ UNCHANGED <<pieceLength, totalSize, lastPieceLength, totalPieces, created, now,
                 tracker>>

\* case pm := <-ts.peerMessageChan, and what peerReader sent is its final
\* sentinel (message = nil): a read failed (EOF, a transport error, the
\* connection closed by the session) or the framing is wrong.
HandleSentinel(p) ==
  /\ halt = "run"
  /\ events < MaxEvents
  /\ events' = events + 1
  /\ reader[p] \in {"header", "body", "closing"}
  /\ Commit(Dispatch([Cur EXCEPT !.peer[p].lastReadTime = now], p, "nil",
                     CHOOSE m \in NilMessage : TRUE, FirstChoice))
  /\ reader' = [reader EXCEPT ![p] = "done"]
  /\ UNCHANGED <<pieceLength, totalSize, lastPieceLength, totalPieces, created, now, rejected,
                 tracker>>

RECURSIVE KeepAliveLoop(_, _, _)
KeepAliveLoop(r, ps, i) ==
  IF ~Running(r) \/ i > Len(ps) THEN r
  ELSE IF r.peer[ps[i]].lastReadTime # 0 /\ now - r.peer[ps[i]].lastReadTime > IDLE_TIMEOUT
       THEN KeepAliveLoop(ClosePeer(r, ps[i]), ps, i + 1)
       ELSE KeepAliveLoop(keepAlive(doCheckRequests(r, ps[i]), ps[i]), ps, i + 1)

\* case _ = <-keepAliveChan
KeepAliveTick ==
  /\ halt = "run"
  /\ events < MaxEvents
  /\ events' = events + 1
  /\ \E addrs \in AddrOrders, dead \in DeadSets :
       /\ DeadMatters(dead)
       /\ AddrsMatter(addrs, dead)
       /\ Commit(KeepAliveLoop([Cur EXCEPT !.dead = dead], RangePeers(Cur, addrs), 1))
  /\ UNCHANGED <<pieceLength, totalSize, lastPieceLength, totalPieces, created, reader,
                 now, rejected, tracker>>

\* time.Seconds() grows between two events.
AdvanceTime ==
  /\ now < StartTime + MaxAdvance * TimeStep
  /\ events < MaxEvents
  /\ events' = events + 1
  /\ now' = now + TimeStep
  /\ sent' = <<>>
  /\ UNCHANGED <<pieceLength, totalSize, lastPieceLength, totalPieces, pieceSet, goodPieces,
                 activePieces, peers, left, downloaded, uploaded, peer,
                 closeCount, created, reader, halt, rejected, completed, tracker>>

\* case _ = <-retrackerChan: ts.fetchTrackerInfo(trackerInfoChan)
RetrackerTick ==
  /\ halt = "run"
  /\ Len(tracker.announces) < MaxAnnounces
  /\ tracker' = fetchTrackerInfo(tracker, uploaded, downloaded, left)
  /\ UNCHANGED sessionVars

\* case ti := <-trackerInfoChan: the goroutine of an announce got a response.
\* The session dials the peers it does not know and re-arms retrackerChan with
\* the interval, clamped to two minutes .. one day.
TrackerResponse ==
  /\ halt = "run"
  /\ \E id \in tracker.pending, ti \in TrackerResponses :
       tracker' = [tracker EXCEPT !.pending = @ \ {id},
                                  !.ti = <<ti>>,
                                  !.dialing = @ \union (ti.peers \ DOMAIN peers),
                                  !.interval = IF ti.interval < 120 THEN 120
                                               ELSE IF ti.interval > 24 * 3600 THEN 24 * 3600
                                               ELSE ti.interval]
  /\ UNCHANGED sessionVars

\* getTrackerInfo failed: the goroutine of the announce logs it and ends.
AnnounceFails ==
  /\ \E id \in tracker.pending : tracker' = [tracker EXCEPT !.pending = @ \ {id}]
  /\ UNCHANGED sessionVars

Next ==
  \/ AddPeer
  \/ \E p \in PeerSet : HandleMessage(p)
  \/ \E p \in PeerSet : HandleSentinel(p)
  \/ KeepAliveTick
  \/ AdvanceTime

Spec == Init /\ [][Next]_vars

\* A session with the peers of Peers connected, each of them a seed: the state
\* of Spec after an AddPeer, a handshake with the right info-hash and a
\* bitfield of all the pieces for each of them.
InitSwarm ==
  /\ \E m \in SwarmTorrents :
       /\ pieceLength = m.L
       /\ totalSize = m.T
       /\ lastPieceLength = m.T % m.L
       /\ totalPieces = (m.T + m.L - 1) \div m.L
  /\ pieceSet \in SUBSET Pieces
  /\ goodPieces = Cardinality(pieceSet)
  /\ left = IF (totalPieces - 1) \notin pieceSet
            THEN (totalPieces - goodPieces) * pieceLength - pieceLength + lastPieceLength
            ELSE (totalPieces - goodPieces) * pieceLength
  /\ activePieces = <<>>
  /\ peers = [a \in 1..Len(Peers) |-> Peers[a]]
  /\ downloaded = 0
  /\ uploaded = 0
  /\ peer = [p \in PeerSet |->
               [NewPeerState EXCEPT !.address = CHOOSE a \in 1..Len(Peers) : Peers[a] = p,
                                    !.hasId = TRUE,
                                    !.haveNil = FALSE,
                                    !.have = Pieces,
                                    !.am_choking = FALSE,
                                    !.am_interested = (pieceSet # Pieces),
                                    !.lastReadTime = StartTime,
                                    !.lastWriteTime = StartTime]]
  /\ closeCount = [p \in PeerSet |-> 0]
  /\ created = Len(Peers)
  /\ reader = [p \in PeerSet |-> "body"]
  /\ halt = "run"
  /\ now = StartTime
  /\ rejected = {}
  /\ completed = {}
  /\ sent = <<>>
  /\ tracker = fetchTrackerInfo(NoTracker, 0, 0, left)
  /\ events = MaxEvents - SwarmEvents

NextSwarm ==
  \/ \E p \in PeerSet : HandleMessage(p)
  \/ \E p \in PeerSet : HandleSentinel(p)
  \/ KeepAliveTick
  \/ AdvanceTime

SpecSwarm == InitSwarm /\ [][NextSwarm]_vars

\* A session in which piece 0 is active with any counter vector (the input of
\* chooseBlockToDownload), the short last piece is on disk and one seed is
\* connected and has unchoked us.
InitChoose ==
  /\ \E n \in 1..MaxVector :
       /\ pieceLength = n * STANDARD_BLOCK_LENGTH
       /\ totalSize = n * STANDARD_BLOCK_LENGTH + 100
       /\ activePieces \in
            {(0 :> [downloaderCount |-> dc, pieceLength |-> n * STANDARD_BLOCK_LENGTH]) :
               dc \in [0..(n - 1) -> -1..MaxCount]}
  /\ lastPieceLength = totalSize % pieceLength
  /\ totalPieces = (totalSize + pieceLength - 1) \div pieceLength
  /\ pieceSet = {totalPieces - 1}
  /\ goodPieces = 1
  /\ left = pieceLength
  /\ peers = (1 :> Peers[1])
  /\ downloaded =
       STANDARD_BLOCK_LENGTH *
         Cardinality({i \in DOMAIN activePieces[0].downloaderCount :
                        activePieces[0].downloaderCount[i] = -1})
  /\ uploaded = 0
  /\ peer = [p \in PeerSet |->
               IF p = Peers[1]
               THEN [NewPeerState EXCEPT !.address = 1,
                                         !.hasId = TRUE,
                                         !.haveNil = FALSE,
                                         !.have = Pieces,
                                         !.am_choking = FALSE,
                                         !.am_interested = TRUE,
                                         !.peer_choking = FALSE,
                                         !.lastReadTime = StartTime,
                                         !.lastWriteTime = StartTime]
               ELSE NewPeerState]
  /\ closeCount = [p \in PeerSet |-> 0]
  /\ created = 1
  /\ reader = [p \in PeerSet |-> IF p = Peers[1] THEN "body" ELSE "none"]
  /\ halt = "run"
  /\ now = StartTime
  /\ rejected = {}
  /\ completed = {}
  /\ sent = <<>>
  /\ tracker = fetchTrackerInfo(NoTracker, 0, 0, left)
  /\ events = 0

\* t.RequestBlock2(p, 0, endGame), as the loops of RequestBlock call it: it
\* applies chooseBlockToDownload(endGame) to the counters of the piece and
\* requests the block it returns.
Choose(endGame) ==
  /\ halt = "run"
  /\ events < MaxEvents
  /\ events' = events + 1
  /\ \A b \in DOMAIN activePieces[0].downloaderCount :
       activePieces[0].downloaderCount[b] <= MaxCount
  /\ Commit(RequestBlock2(Cur, Peers[1], 0, endGame))
  /\ UNCHANGED <<pieceLength, totalSize, lastPieceLength, totalPieces, created, reader,
                 now, rejected, tracker>>

NextChoose == \E endGame \in BOOLEAN : Choose(endGame)

SpecChoose == InitChoose /\ [][NextChoose]_vars

\* The tracker side of doTorrent, from the first announce on.
NextTracker ==
  \/ RetrackerTick
  \/ TrackerResponse
  \/ AnnounceFails

SpecTracker == Init /\ [][NextTracker]_vars

\* ------------------------------------------------------------ a seed
\* A session with one peer, the seed, that has connected and sent a matching
\* handshake (the state of Spec after AddPeer and the handshake), for the
\* torrents whose size is not a multiple of the piece length.  The seed's
\* writer receives, its reader delivers what the seed sends, and the seed
\* answers the requests it holds; the steps are not counted.
Seed == Peers[1]

LiveTorrents == {m \in Torrents : m.T % m.L # 0}

InitLive ==
  /\ \E m \in LiveTorrents :
       /\ pieceLength = m.L
       /\ totalSize = m.T
       /\ lastPieceLength = m.T % m.L
       /\ totalPieces = (m.T + m.L - 1) \div m.L
  /\ pieceSet \in SUBSET Pieces
  /\ goodPieces = Cardinality(pieceSet)
  /\ left = IF (totalPieces - 1) \notin pieceSet
            THEN (totalPieces - goodPieces) * pieceLength - pieceLength + lastPieceLength
            ELSE (totalPieces - goodPieces) * pieceLength
  /\ activePieces = <<>>
  /\ peers = <<Seed>>
  /\ downloaded = 0
  /\ uploaded = 0
  /\ peer = [p \in PeerSet |->
               IF p = Seed
               THEN [NewPeerState EXCEPT !.address = 1,
                                         !.hasId = TRUE,
                                         !.am_choking = FALSE,
                                         !.lastReadTime = StartTime,
                                         !.lastWriteTime = StartTime]
               ELSE NewPeerState]
  /\ closeCount = [p \in PeerSet |-> 0]
  /\ created = 1
  /\ reader = [p \in PeerSet |-> IF p = Seed THEN "body" ELSE "none"]
  /\ halt = "run"
  /\ now = StartTime
  /\ rejected = {}
  /\ completed = {}
  /\ sent = <<>>
  /\ tracker = fetchTrackerInfo(NoTracker, 0, 0, left)
  /\ events = 0

\* case pm := <-ts.peerMessageChan, and pm is the message m of the seed.
SeedDelivers(m, c) ==
  /\ \E r \in {Dispatch([Cur EXCEPT !.peer[Seed].lastReadTime = now],
                         Seed, "body", m, c)} : Commit(r)
  /\ UNCHANGED <<pieceLength, totalSize, lastPieceLength, totalPieces, created, reader,
                 now, events, rejected, tracker>>

\* What a seed sends unasked: a keep-alive, its bitfield (first), a have for a
\* piece it has not announced, an unchoke while it chokes us.
SeedNews ==
  {Msg(-1, 0, 0, 0, 0, {}, FALSE, FALSE)}
  \union (IF peer[Seed].haveNil
          THEN {Msg(5, 1 + (totalPieces + 7) \div 8, 0, 0, 0, Pieces, FALSE, FALSE)}
          ELSE {})
  \union {Msg(4, 5, n, 0, 0, {}, FALSE, FALSE) : n \in Pieces \ peer[Seed].have}
  \union (IF peer[Seed].peer_choking
          THEN {Msg(1, 1, 0, 0, 0, {}, FALSE, FALSE)}
          ELSE {})

\* The seed's answer to the request with key k: a piece with the bytes asked.
AnswerTo(k) ==
  Msg(7, 9 + RequestLength(KeyPiece(k), KeyBegin(k)), KeyPiece(k), KeyBegin(k),
      RequestLength(KeyPiece(k), KeyBegin(k)), {}, FALSE, FALSE)

SeedAnnounces ==
  /\ halt = "run"
  /\ reader[Seed] = "body"
  /\ closeCount[Seed] = 0
  /\ \E m \in SeedNews, c \in UnchokeChoices :
       /\ OrderMatters(c, {})
       /\ SeedDelivers(m, c)

SeedAnswers ==
  /\ halt = "run"
  /\ reader[Seed] = "body"
  /\ closeCount[Seed] = 0
  /\ \E k \in DOMAIN peer[Seed].our_requests, c \in PieceChoices :
       /\ OrderMatters(c, {})
       /\ SeedDelivers(AnswerTo(k), c)

\* case _ = <-keepAliveChan
LiveTick ==
  /\ halt = "run"
  /\ \E r \in {KeepAliveLoop(Cur, RangePeers(Cur, FirstAddrs), 1)} : Commit(r)
  /\ UNCHANGED <<pieceLength, totalSize, lastPieceLength, totalPieces, created, reader,
                 now, events, rejected, tracker>>

\* time.Seconds() grows between two events.
LiveAdvance ==
  /\ now < StartTime + MaxAdvance * TimeStep
  /\ now' = now + TimeStep
  /\ sent' = <<>>
  /\ UNCHANGED <<pieceLength, totalSize, lastPieceLength, totalPieces, pieceSet, goodPieces,
                 activePieces, peers, left, downloaded, uploaded, peer, closeCount,
                 created, reader, halt, events, rejected, completed, tracker>>

NextLive ==
  \/ SeedAnnounces
  \/ SeedAnswers
  \/ LiveTick
  \/ LiveAdvance

\* The seed holds a request whose answer the session has a use for: SeedAnswers
\* is enabled and its step changes the state (the handler drops the key from
\* our_requests, and records the block or allocates the piece).
AnswerDue ==
  /\ halt = "run"
  /\ reader[Seed] = "body"
  /\ closeCount[Seed] = 0
  /\ \E k \in DOMAIN peer[Seed].our_requests : KeyPiece(k) \notin pieceSet

\* Weak fairness of SeedAnswers, with AnswerDue for its enabling condition.
SeedFair == <>[]AnswerDue => []<><<SeedAnswers>>_vars

\* Fair scheduling of the session's events: the loop receives every message
\* the reader holds and every tick; the seed answers the requests it holds.
SpecLive ==
  /\ InitLive
  /\ [][NextLive]_vars
  /\ SeedFair
  /\ WF_vars(LiveTick)

\* ------------------------------------------------------------ properties
\* The peerStates registered in t.peers.
Registered == {peers[a] : a \in DOMAIN peers}

\* C1: for every active piece and every block of it whose counter k is greater
\* than 0, exactly k distinct peers of the peers map hold the block's key in
\* our_requests; a block whose counter is 0 is held by no peer.
C1_CounterCountsHolders ==
  \A k \in DOMAIN activePieces : \A b \in DOMAIN activePieces[k].downloaderCount :
    activePieces[k].downloaderCount[b] >= 0 =>
      Cardinality({p \in Registered :
                     RequestIndex(k, b * STANDARD_BLOCK_LENGTH) \in DOMAIN peer[p].our_requests})
        = activePieces[k].downloaderCount[b]

\* C2: after any sequence of events every peer's our_requests holds at most
\* MAX_OUR_REQUESTS entries.
C2_AtMostMaxOurRequests ==
  \A p \in PeerSet : Cardinality(DOMAIN peer[p].our_requests) <= MAX_OUR_REQUESTS

\* The length of piece i: L for an interior piece, T - (N-1)*L for the last.
PieceLengthOf(i) ==
  IF i = totalPieces - 1 THEN totalSize - (totalPieces - 1) * pieceLength ELSE pieceLength

RECURSIVE SumOfLengths(_)
SumOfLengths(S) ==
  IF S = {} THEN 0
  ELSE PieceLengthOf(Min(S)) + SumOfLengths(S \ {Min(S)})

\* C3: after construction and after every event, Left is non-negative and is
\* the sum of the lengths of the pieces not set in pieceSet, for every total
\* size, an exact multiple of the piece length included.
C3_LeftIsMissingBytes == left >= 0 /\ left = SumOfLengths(Pieces \ pieceSet)

\* C4: after every event no piece index is both set in pieceSet and a key of
\* activePieces.
C4_HadPiecesNotActive == pieceSet \intersect DOMAIN activePieces = {}

\* C4 witness: RecordBlock has completed a piece (it moved it from activePieces
\* to pieceSet) while another piece is active.
C4_CompletedBesideActive ==
  /\ completed # {}
  /\ completed \subseteq pieceSet
  /\ DOMAIN activePieces # {}

\* C5: after every event every ActivePiece in activePieces has a block counter
\* different from -1: no complete piece remains in the map.
C5_ActivePiecesIncomplete ==
  \A k \in DOMAIN activePieces : ~isComplete(activePieces[k].downloaderCount)

\* C6: every step leaves every block counter of every ActivePiece at -1 or at a
\* non-negative integer; a counter that is -1 stays -1 as long as its piece is
\* active; and a counter goes from 0 or more to -1 only when a block is
\* recorded, never by a decrement (RecordBlock then adds to Downloaded, unless
\* the session task stops in its cancel loop before).
C6_CountersStayValid ==
  [][\A k \in DOMAIN activePieces' : \A b \in DOMAIN activePieces'[k].downloaderCount :
       /\ activePieces'[k].downloaderCount[b] >= -1
       /\ k \in DOMAIN activePieces =>
            /\ activePieces[k].downloaderCount[b] = -1 =>
                 activePieces'[k].downloaderCount[b] = -1
            /\ (activePieces[k].downloaderCount[b] >= 0
                  /\ activePieces'[k].downloaderCount[b] = -1) =>
                 (downloaded' > downloaded \/ halt' = "blocked")]_vars

\* C6 witness: an active piece with a received block (-1) next to a block that
\* was requested twice and given back once: its counter is above 0 and nobody
\* holds a request for it.
C6_ReceivedBesideReturned ==
  \E k \in DOMAIN activePieces : \E b, c \in DOMAIN activePieces[k].downloaderCount :
    /\ activePieces[k].downloaderCount[b] = -1
    /\ activePieces[k].downloaderCount[c] > 0
    /\ \A p \in PeerSet : peer[p].our_requests = <<>>

\* C7: once the session has handled the final sentinel of a peer's reader, the
\* peer is closed: it is not in the peers map and holds no request, whether
\* the sentinel came before or after the handshake.
C7_SentinelClosesPeer ==
  \A p \in PeerSet :
    reader[p] = "done" =>
      /\ closeCount[p] > 0
      /\ p \notin Registered
      /\ peer[p].our_requests = <<>>

\* C8: a peer whose first message carried a wrong info-hash is closed and out
\* of the peers map, and its peer-id is never recorded, whatever it sends next.
C8_WrongHashPeerStaysOut ==
  \A p \in rejected :
    /\ closeCount[p] > 0
    /\ p \notin Registered
    /\ ~peer[p].hasId

\* C9: the outbound channel of a peerState is closed at most once.
C9_ClosedAtMostOnce == \A p \in PeerSet : closeCount[p] <= 1

\* C10: a keep-alive tick closes and removes every peer of the peers map from
\* which nothing was read for more than IDLE_TIMEOUT seconds: since its last
\* message, or since it was added when it never sent one (a peer is never
\* written to before it is added, so it was added no later than lastWriteTime).
C10_TickClosesIdlePeers ==
  [][KeepAliveTick =>
       \A p \in Registered :
         (now - (IF peer[p].lastReadTime # 0 THEN peer[p].lastReadTime
                 ELSE peer[p].lastWriteTime) > IDLE_TIMEOUT)
           => closeCount'[p] > 0 /\ p \notin {peers'[a] : a \in DOMAIN peers'}]_vars

\* The peerStates whose our_requests holds the key k, in the session state r.
Holders(r, k) == {q \in PeerSet : k \in DOMAIN r.peer[q].our_requests}

\* The places of the sequence of messages s where a message of opcode op to q is.
SentTo(s, q, op) == {i \in 1..Len(s) : s[i].to = q /\ s[i].op = op}

\* r is the session state after RecordBlock(p, piece, block * B, ...) in r0:
\* the block is received, nobody holds its key, every other peer that held it
\* was sent one cancel, with what its request had, and p was sent none.
CancelledIn(r0, r, p, piece, block) ==
  /\ piece \in DOMAIN r.activePieces => r.activePieces[piece].downloaderCount[block] = -1
  /\ Holders(r, RequestIndex(piece, block * STANDARD_BLOCK_LENGTH)) = {}
  /\ \A q \in Holders(r0, RequestIndex(piece, block * STANDARD_BLOCK_LENGTH)) \ {p} :
       /\ Cardinality(SentTo(r.sent, q, 8)) = 1
       /\ \A i \in SentTo(r.sent, q, 8) :
            r.sent[i] = [Out(8, piece, block * STANDARD_BLOCK_LENGTH,
                             RequestLength(piece, block * STANDARD_BLOCK_LENGTH))
                           EXCEPT !.to = q]
  /\ SentTo(r.sent, p, 8) = {}

\* C11: when RecordBlock records a block whose counter was greater than 1, the
\* counter becomes -1, every other peer whose our_requests holds the key of the
\* block is sent exactly one cancel with the piece, begin and length of its
\* request and loses the entry, no peer's our_requests holds the key afterwards,
\* and the delivering peer is sent no cancel.  Stated of every reachable state
\* and of every peer p whose reader can deliver the block there.
C11_DuplicatesCancelled ==
  \A p \in PeerSet :
    (halt = "run" /\ reader[p] = "body") =>
      \A piece \in DOMAIN activePieces :
        \A block \in DOMAIN activePieces[piece].downloaderCount :
          activePieces[piece].downloaderCount[block] > 1 =>
            \A addrs \in AddrOrders, dead \in DeadSets :
              DeadMatters(dead) =>
                CancelledIn(Cur,
                            RecordBlock([Cur EXCEPT !.dead = dead], p, piece,
                                        block * STANDARD_BLOCK_LENGTH,
                                        RequestLength(piece, block * STANDARD_BLOCK_LENGTH),
                                        addrs),
                            p, piece, block)

\* The number of blocks of the last piece.
NumBlocksLast ==
  (PieceLengthOf(totalPieces - 1) + STANDARD_BLOCK_LENGTH - 1) \div STANDARD_BLOCK_LENGTH

\* C12: every request (opcode 6) the session issues has begin = block * B for a
\* block of the piece and length = min(B, pieceLength(piece) - begin) > 0, so
\* begin + length does not exceed the length of the piece; the length is
\* T - ((N-1)*L + (numBlocksLast-1)*B) for the final block of the final piece
\* and B for every other block.
C12_RequestsWithinPiece ==
  \A i \in 1..Len(sent) :
    sent[i].op = 6 =>
      /\ sent[i].index \in Pieces
      /\ sent[i].begin % STANDARD_BLOCK_LENGTH = 0
      /\ sent[i].begin < PieceLengthOf(sent[i].index)
      /\ sent[i].length =
           Min({STANDARD_BLOCK_LENGTH, PieceLengthOf(sent[i].index) - sent[i].begin})
      /\ sent[i].length > 0
      /\ sent[i].begin + sent[i].length <= PieceLengthOf(sent[i].index)
      /\ sent[i].length =
           IF sent[i].index = totalPieces - 1
              /\ sent[i].begin = (NumBlocksLast - 1) * STANDARD_BLOCK_LENGTH
           THEN totalSize - ((totalPieces - 1) * pieceLength
                               + (NumBlocksLast - 1) * STANDARD_BLOCK_LENGTH)
           ELSE STANDARD_BLOCK_LENGTH

\* The interested (2) and not-interested (3) messages to p among the messages s.
InterestSeq(s, p) == SelectSeq(s, LAMBDA m : m.to = p /\ m.op \in {2, 3})

\* C13: interested and not-interested are sent to a peer only on a transition
\* of am_interested, so the messages of the two kinds sent to a peer alternate
\* and start with interested.  As a property of every step: those it sends to a
\* peer alternate, the first is interested exactly if am_interested was false
\* (as it is when the peerState is created), and am_interested ends as the last
\* one says, and unchanged when there is none (the session task may stop in the
\* send, after it has set the flag).
C13_InterestAlternates ==
  [][\A p \in PeerSet :
       /\ InterestSeq(sent', p) # <<>> =>
            InterestSeq(sent', p)[1].op = (IF peer[p].am_interested THEN 3 ELSE 2)
       /\ \A i \in 1..(Len(InterestSeq(sent', p)) - 1) :
            InterestSeq(sent', p)[i].op # InterestSeq(sent', p)[i + 1].op
       /\ halt' = "run" =>
            peer'[p].am_interested =
              IF InterestSeq(sent', p) = <<>> THEN peer[p].am_interested
              ELSE InterestSeq(sent', p)[Len(InterestSeq(sent', p))].op = 2]_vars

\* C13 witness: a peer that was sent interested is sent not-interested (its
\* last block arrived and it has nothing else we lack).
C13_NotInterestedSent ==
  \E i \in 1..Len(sent) :
    /\ sent[i].op = 3
    /\ sent[i].open
    /\ ~peer[sent[i].to].am_interested
    /\ completed # {}

\* The blocks chooseBlockToDownload may return for the counters dc.
Eligible(dc, endgame) ==
  IF endgame
  THEN {i \in DOMAIN dc : dc[i] >= 0 /\ \A j \in DOMAIN dc : dc[j] >= 0 => dc[i] <= dc[j]}
  ELSE {i \in DOMAIN dc : dc[i] = 0}

\* c is right for the counters dc: the lowest eligible block, its counter one
\* higher and no other changed; or NONE and nothing changed.
ChosenRight(dc, endgame, c) ==
  /\ DOMAIN c.dc = DOMAIN dc
  /\ IF Eligible(dc, endgame) = {}
     THEN c.index = -1 /\ \A j \in DOMAIN dc : c.dc[j] = dc[j]
     ELSE /\ c.index \in Eligible(dc, endgame)
          /\ \A j \in Eligible(dc, endgame) : c.index <= j
          /\ c.dc[c.index] = dc[c.index] + 1
          /\ \A j \in DOMAIN dc : j # c.index => c.dc[j] = dc[j]

\* C14: for every counter vector, chooseBlockToDownload returns in normal mode
\* the lowest index whose counter is 0 and in endgame mode the lowest index
\* among the blocks whose counter is the least of the counters >= 0; it adds one
\* to that counter and leaves the others; it returns NONE (-1) and changes
\* nothing when no block is eligible.
C14_ChoosesLowestEligible ==
  \A k \in DOMAIN activePieces : \A endgame \in BOOLEAN :
    ChosenRight(activePieces[k].downloaderCount, endgame,
                chooseBlockToDownload(activePieces[k].downloaderCount, endgame))

\* C14 witness: the block the last step chose and requested is above a received
\* block, a block with a higher counter and a block with its counter.
C14_ChoseAmongTies ==
  /\ Len(sent) = 1
  /\ sent[1].op = 6
  /\ sent[1].begin = STANDARD_BLOCK_LENGTH
  /\ 0 \in DOMAIN activePieces
  /\ 2 \in DOMAIN activePieces[0].downloaderCount
  /\ activePieces[0].downloaderCount[0] = -1
  /\ activePieces[0].downloaderCount[1] = 2
  /\ activePieces[0].downloaderCount[2] = 1

\* C15: only the first announce of a session carries event=started; every
\* announce issued after it omits it, also when an announce failed or its
\* response has not arrived at the next retracker tick.
C15_StartedOnlyFirst ==
  \A i \in 1..Len(tracker.announces) : tracker.announces[i].started <=> i = 1

\* C16: goodPieces is the number of bits set in pieceSet, after construction
\* and after every event; a piece is counted once, however many times its
\* blocks are delivered.
C16_GoodPiecesCountsPieceSet == goodPieces = Cardinality(pieceSet)

\* C16 witness: RecordBlock has completed and counted the last missing piece.
C16_AllPiecesCounted ==
  /\ completed # {}
  /\ pieceSet = Pieces
  /\ goodPieces = totalPieces

\* The requests (opcode 6) for block `block` of piece k among the messages s.
RequestsFor(s, k, block) ==
  {i \in 1..Len(s) : /\ s[i].op = 6
                     /\ s[i].index = k
                     /\ s[i].begin = block * STANDARD_BLOCK_LENGTH}

\* The first request for piece k among the messages s is for block 0.
FirstRequestsBlock0(s, k) ==
  /\ RequestsFor(s, k, 0) # {}
  /\ \A i \in 1..Len(s) :
       s[i].op = 6 /\ s[i].index = k => Min(RequestsFor(s, k, 0)) <= i

\* C17: an ActivePiece that RequestBlock allocates for piece k has pieceLength
\* L for an interior piece and T - (N-1)*L for the last, and a counter vector
\* of ceil(pieceLength/B) >= 1 entries that are all 0, so that the call
\* requests block 0 of k: after the step every counter of k is the number of
\* requests the step issued for its block, and the first of them is for block
\* 0.  For every T, an exact multiple of L included.
C17_FreshActivePiece ==
  [][\A k \in DOMAIN activePieces' \ DOMAIN activePieces :
       /\ activePieces'[k].pieceLength = PieceLengthOf(k)
       /\ NumBlocks(activePieces'[k].downloaderCount) =
            (PieceLengthOf(k) + STANDARD_BLOCK_LENGTH - 1) \div STANDARD_BLOCK_LENGTH
       /\ NumBlocks(activePieces'[k].downloaderCount) >= 1
       /\ halt' = "run" =>
            /\ FirstRequestsBlock0(sent', k)
            /\ \A b \in DOMAIN activePieces'[k].downloaderCount :
                 activePieces'[k].downloaderCount[b] =
                   Cardinality(RequestsFor(sent', k, b))]_vars

\* r1 is the session state after RequestBlock(p) in r0: no error is returned;
\* if p has a piece that is not in pieceSet, the call passed one request for p
\* to sendMessage and nothing else; if not, it passed no request, and a
\* not-interested is passed only then.
RequestedOnce(r0, r1, p) ==
  /\ r1.err = "nil"
  /\ \A i \in 1..Len(r1.sent) : r1.sent[i].to = p /\ r1.sent[i].op \in {3, 6}
  /\ IF (r0.peer[p].have \intersect Pieces) \ r0.pieceSet # {}
     THEN Len(r1.sent) = 1 /\ Cardinality(SentTo(r1.sent, p, 6)) = 1
     ELSE SentTo(r1.sent, p, 6) = {}

\* C18: RequestBlock(p) issues exactly one request whenever p has a piece that
\* is not in pieceSet; it sends not-interested and issues no request only when
\* p has no piece that we lack; it never returns an error (which would close
\* the peer).  Stated of every reachable state, of every peer p whose reader
\* can deliver an unchoke or a piece there, and of every iteration order and
\* random start the call can draw.
C18_RequestBlockRequestsOnce ==
  \A p \in PeerSet :
    (halt = "run" /\ reader[p] = "body" /\ ~peer[p].haveNil) =>
      \A o \in Draws : RequestedOnce(Cur, RequestBlock(Cur, p, o), p)

\* The choke message: opcode 0, one byte long.
ChokeMessage == Msg(0, 1, 0, 0, 0, {}, FALSE, FALSE)

\* r1 is the session state after the handler of a choke from p in r0.
ChokeEffect(r0, r1, p) ==
  /\ r1.peer[p].peer_choking
  /\ r1.peer[p].our_requests = <<>>
  /\ DOMAIN r1.activePieces = DOMAIN r0.activePieces
  /\ \A k \in DOMAIN r0.activePieces :
       /\ r1.activePieces[k].pieceLength = r0.activePieces[k].pieceLength
       /\ DOMAIN r1.activePieces[k].downloaderCount =
            DOMAIN r0.activePieces[k].downloaderCount
       /\ \A b \in DOMAIN r0.activePieces[k].downloaderCount :
            r1.activePieces[k].downloaderCount[b] =
              IF /\ RequestIndex(k, b * STANDARD_BLOCK_LENGTH)
                      \in DOMAIN r0.peer[p].our_requests
                 /\ r0.activePieces[k].downloaderCount[b] > 0
              THEN r0.activePieces[k].downloaderCount[b] - 1
              ELSE r0.activePieces[k].downloaderCount[b]
  /\ \A q \in PeerSet \ {p} : r1.peer[q].our_requests = r0.peer[q].our_requests
  /\ r1.pieceSet = r0.pieceSet
  /\ r1.goodPieces = r0.goodPieces
  /\ r1.left = r0.left
  /\ r1.downloaded = r0.downloaded
  /\ r1.uploaded = r0.uploaded
  /\ r1.sent = <<>>

\* C19: handling choke from peer p sets peer_choking, empties p.our_requests,
\* decrements by exactly one the counter of each block p had outstanding whose
\* counter was greater than 0, and leaves unchanged every other counter, every
\* counter that is 0 or -1, every other peer's our_requests, pieceSet and the
\* byte counters; no message is sent.  Stated of every reachable state and of
\* every peer p whose reader can deliver a choke there.
C19_ChokeReturnsRequests ==
  \A p \in PeerSet :
    (halt = "run" /\ reader[p] = "body") =>
      ChokeEffect(Cur,
                  Dispatch([Cur EXCEPT !.peer[p].lastReadTime = now],
                           p, "body", ChokeMessage, FirstChoice),
                  p)

\* C19 witness: the only peer there is has been choked after it was sent
\* requests: it is choking, its our_requests is empty, the step sent nothing,
\* and the counters of the piece it has, all requested before, are 0 again.
C19_ChokedAfterRequests ==
  /\ created = 1
  /\ sent = <<>>
  /\ \E p \in Registered :
       /\ closeCount[p] = 0
       /\ ~peer[p].haveNil
       /\ peer[p].peer_choking
       /\ peer[p].am_interested
       /\ peer[p].our_requests = <<>>
       /\ peer[p].lastReadTime = now
       /\ \E k \in DOMAIN activePieces \intersect peer[p].have :
            /\ NumBlocks(activePieces[k].downloaderCount) = MAX_OUR_REQUESTS
            /\ \A b \in DOMAIN activePieces[k].downloaderCount :
                 activePieces[k].downloaderCount[b] = 0

\* A request the session serves: index < N, the piece is in the pieceSet ps,
\* length = B, begin < L and begin + length <= L.
ValidRequest(ps, index, begin, length) ==
  /\ index < totalPieces
  /\ index \in ps
  /\ length = STANDARD_BLOCK_LENGTH
  /\ begin < pieceLength
  /\ begin + length <= pieceLength

\* r1 is the session state after the handler of the request m from p in r0: a
\* piece is sent or Uploaded grows only if m is valid and p is not choked, and
\* then the piece is the one requested, it is the only message, and Uploaded
\* grows by the requested length; if m breaks a bound or names a piece we do
\* not hold, p is closed and nothing is sent.
RequestEffect(r0, r1, p, m) ==
  /\ (SentTo(r1.sent, p, 7) # {} \/ r1.uploaded # r0.uploaded) =>
       /\ m.len = 13
       /\ ValidRequest(r0.pieceSet, m.index, m.begin, m.length)
       /\ ~r0.peer[p].am_choking
       /\ r1.sent = <<[Out(7, m.index, m.begin, m.length)
                         EXCEPT !.to = p, !.open = (r0.closeCount[p] = 0)]>>
       /\ r1.uploaded = r0.uploaded + m.length
  /\ ~(m.len = 13 /\ ValidRequest(r0.pieceSet, m.index, m.begin, m.length)) =>
       /\ r1.sent = <<>>
       /\ r1.uploaded = r0.uploaded
       /\ r1.closeCount[p] = r0.closeCount[p] + 1
       /\ \A a \in DOMAIN r1.peers : r1.peers[a] # p

\* Every request handled in the current state has the effect RequestEffect.  A
\* message is handled as a request when its sender has sent its handshake
\* (p.id is set); before that DoMessage reads it as the handshake.
RequestsServed ==
  \A p \in PeerSet :
    (halt = "run" /\ reader[p] = "body" /\ peer[p].hasId) =>
      \A m \in {x \in Messages : x.op = 6}, dead \in {{}, {p}} :
        DeadMatters(dead) =>
          RequestEffect(Cur,
                        Dispatch([Cur EXCEPT !.peer[p].lastReadTime = now,
                                             !.dead = dead],
                                 p, "body", m, FirstChoice),
                        p, m)

\* A step changes Uploaded exactly if it sends a piece message, and then that
\* is the only message of the step, it answers a valid request of a peer that
\* is not choked and could deliver one, and Uploaded grows by its length.
UploadStep ==
  /\ (\E i \in 1..Len(sent') : sent'[i].op = 7) <=> uploaded' # uploaded
  /\ uploaded' # uploaded =>
       /\ Len(sent') = 1
       /\ ValidRequest(pieceSet, sent'[1].index, sent'[1].begin, sent'[1].length)
       /\ reader[sent'[1].to] = "body"
       /\ ~peer[sent'[1].to].am_choking
       /\ uploaded' = uploaded + sent'[1].length

\* C20: the session sends a piece message (opcode 7) and increases Uploaded, by
\* the requested length, only in response to a request with index < N, the
\* piece in pieceSet, length = B, begin < L and begin + length <= L, received
\* while am_choking is false; a request that breaks a bound or names a piece we
\* do not hold closes the peer and sends nothing; no other event changes
\* Uploaded.
C20_PieceOnlyForValidRequest == []RequestsServed /\ [][UploadStep]_vars

\* C20 witness: the last step served a request: the piece was sent on an open
\* channel and Uploaded has counted it.
C20_PieceUploaded ==
  /\ uploaded = STANDARD_BLOCK_LENGTH
  /\ Len(sent) = 1
  /\ sent[1].op = 7
  /\ sent[1].open
  /\ sent[1].index \in pieceSet
  /\ sent[1].to \in Registered

\* The keys a step adds to the our_requests of p, or stamps again.
RequestsAdded(p) ==
  {k \in DOMAIN peer'[p].our_requests :
     k \notin DOMAIN peer[p].our_requests
       \/ peer'[p].our_requests[k] # peer[p].our_requests[k]}

\* C21: a request (opcode 6) is issued to a peer only while that peer is not
\* choking us: whenever a step passes a request for p to sendMessage or adds an
\* entry to p.our_requests, p.peer_choking is false, and while p chokes us
\* (from a choke until the next unchoke, and before the first unchoke)
\* p.our_requests is empty.
C21_RequestsOnlyWhenUnchoked ==
  [][\A p \in PeerSet :
       /\ (SentTo(sent', p, 6) # {} \/ RequestsAdded(p) # {})
            => ~peer'[p].peer_choking
       /\ peer'[p].peer_choking => peer'[p].our_requests = <<>>]_vars

\* C22: the session task never blocks for ever: every sendMessage on a peer's
\* outbound channel is received, also after that peer's writer task has
\* returned on a write error, so that the loop returns to handle the next
\* event.  halt = "blocked" is the session task inside a send on an open
\* channel that no task receives from any more; nothing ends that send.
C22_SessionNeverBlocks == halt # "blocked"

\* A step increments a counter of an active piece (or allocates the piece with
\* a counter above 0).
CounterIncremented ==
  \E k \in DOMAIN activePieces' :
    \E b \in DOMAIN activePieces'[k].downloaderCount :
      activePieces'[k].downloaderCount[b] >
        (IF k \in DOMAIN activePieces THEN activePieces[k].downloaderCount[b] ELSE 0)

\* C23: once a peer has been closed (ClosePeer: removed from the peers map, its
\* outbound channel closed), the session never again sends a message on its
\* channel, never again records a request in its our_requests and never
\* increments a counter on its behalf (a counter is incremented only for a
\* request to a peer that is not closed), also when a message its reader had
\* queued is delivered afterwards.
C23_NothingForClosedPeers ==
  [][/\ \A p \in PeerSet :
          closeCount[p] > 0 =>
            /\ \A i \in 1..Len(sent') : sent'[i].to # p
            /\ RequestsAdded(p) = {}
     /\ CounterIncremented =>
          \/ halt' = "blocked"
          \/ \E i \in 1..Len(sent') : sent'[i].op = 6 /\ closeCount[sent'[i].to] = 0]_vars

\* The seed is in the peers map, has every piece and has unchoked us.
SeedReady ==
  /\ Seed \in Registered
  /\ closeCount[Seed] = 0
  /\ ~peer[Seed].haveNil
  /\ peer[Seed].have = Pieces
  /\ ~peer[Seed].peer_choking

\* C24: if some peer of the peers map has every piece, has unchoked us and
\* answers every request it receives with the requested block (and stays so),
\* then under fair scheduling of the session's events eventually every piece
\* is in pieceSet and Left is 0.
C24_SeedCompletesDownload == <>[]SeedReady => <>(pieceSet = Pieces /\ left = 0)

=============================================================================
